---- MODULE Spec2Model ----
(***************************************************************************)
(* Model of the BestTime foot-traffic service of ByzAnalyzer2              *)
(* (src/New_thesis/can/besttime.py, duplicated in src/New_thesis/my_app.py *)
(* and src/New_thesis/utils/foottraffic_helper.py): the provider calls,    *)
(* the progress poll loop with its backoff, and the three route handlers.  *)
(*                                                                         *)
(* Time is counted in ticks of 1/32 s, so that every interval the backoff  *)
(* produces from a whole number of seconds is a whole number of ticks.     *)
(* JSON values are tagged records: None, strings, lists and dicts.         *)
(***************************************************************************)
EXTENDS Integers, Sequences, FiniteSets, TLC

\* ------------------------------------------------------------------ bounds
TicksPerSecond == 32
MaxTimeoutSec == 5
MaxIntervalSec == 2
BigIntervalSec == 9
MaxCallSec == 1
MaxRankLen == 3
MaxTopN == 3
MaxSeriesLen == 3
MaxRequests == 3
MaxConcRequests == 5
ClockStepSec == 200
MaxClockSteps == 2

\* --------------------------------------------------------- program constants
BackoffCapSec == 8
HttpBadRequest == 400
HttpServerError == 500
HttpAccepted == 202
HttpNotFound == 404
HttpOk == 200
HttpCreated == 201
HttpUnauthorized == 401
OTP_TTL_SECONDS == 300
MAX_OTP_ATTEMPTS == 3
DefaultTimeoutSec == 30
DefaultIntervalSec == 2

\* ------------------------------------------------------------- JSON values
None == [type |-> "None"]
Absent == [type |-> "absent"]
\* a string is its path part plus the two query parameters the code reads
Str(s) == [type |-> "str", path |-> s, qjob |-> "", qcoll |-> ""]
Url(p, j, c) == [type |-> "str", path |-> p, qjob |-> j, qcoll |-> c]
List(xs) == [type |-> "list", val |-> xs]
Num(n) == [type |-> "num", val |-> n]

\* Python truthiness of a JSON value
Truthy(v) ==
    CASE v.type = "None" -> FALSE
      [] v.type = "absent" -> FALSE
      [] v.type = "str" -> ~(v.path = "" /\ v.qjob = "" /\ v.qcoll = "")
      [] v.type = "list" -> Len(v.val) > 0
      [] v.type = "num" -> v.val # 0
      [] OTHER -> TRUE

\* d.get(key): a missing key reads as None
Get(v) == IF v.type = "absent" THEN None ELSE v

\* a or b
PyOr(a, b) == IF Truthy(a) THEN a ELSE b

IsList(v) == v.type = "list"

Min(a, b) == IF a < b THEN a ELSE b

\* ------------------------------------------------------------------ venues
\* a venue dict; series lists, per forecast day, the value of day_info.day_mean
Venue(name, forecast, lat, lon, series) ==
    [name |-> name, forecast |-> forecast, venue_lat |-> lat, venue_lon |-> lon,
     venue_foot_traffic_forecast |-> series]

VenueNear == Venue("near", Num(1), Num(14), Num(120), List(<<Num(10), None, Num(20)>>))
VenueNorth == Venue("north", Num(1), Num(15), Num(120), List(<<Num(5)>>))
VenueSouth == Venue("south", Num(1), Num(13), Num(120), List(<<Num(10)>>))
VenueNoForecast == Venue("quiet", None, Num(14), Num(121), List(<<>>))
\* flagged as forecast, with no forecast day at all
VenueEmptySeries == Venue("bare", Num(1), Num(14), Num(121), List(<<>>))
VenueWest == Venue("west", Num(1), Num(14), Num(119), List(<<Num(7), Str("high")>>))
\* coordinates that are missing (null, or the key is not there) or not numbers
VenueNoLat == Venue("nolat", Num(1), None, Num(120), List(<<Num(10)>>))
VenueNoLon == Venue("nolon", Num(1), Num(14), Absent, List(<<Num(10)>>))
VenueBadLat == Venue("badlat", Num(1), Str("abc"), Num(120), List(<<Num(10)>>))

\* the venue lists a provider body may carry
VenueLists ==
    {<<VenueNorth>>, <<VenueNorth, VenueSouth, VenueNear>>, <<VenueNoForecast>>}

\* a JSON object of the provider, with the keys the code reads
EmptyDict ==
    [type |-> "dict", venues |-> Absent, results |-> Absent, items |-> Absent,
     found_venues |-> Absent, job_id |-> Absent, job |-> Absent,
     collection_id |-> Absent, links |-> Absent, other |-> Absent,
     error |-> Absent, details |-> Absent]

IsDict(v) == v.type = "dict"

\* ------------------------------------------------- what the provider sends
\* an HTTP exchange either raises in the transport or yields a response
\* with a status, a raw text and, when the text is JSON, its parsed value
TransportError == [kind |-> "raise"]
HttpResponse(ok, status, parseable, json, text) ==
    [kind |-> "http", ok |-> ok, status |-> status, parseable |-> parseable,
     json |-> json, text |-> text]

ProviderErrorStatuses == {401, 503}

FailureResponses ==
    {HttpResponse(FALSE, s, TRUE, [EmptyDict EXCEPT !.error = Str("provider says no")], "{json}")
        : s \in ProviderErrorStatuses}
    \cup {HttpResponse(FALSE, s, FALSE, None, "<html>") : s \in ProviderErrorStatuses}

OkResponse(body) == HttpResponse(TRUE, HttpOk, TRUE, body, "{json}")
\* a 2xx answer whose text is not JSON: r.json() raises
OkNotJson == HttpResponse(TRUE, HttpOk, FALSE, None, "<html>")

\* --------------------------------------------------------- provider client
\* results of besttime_post_qs / besttime_get_json; sent counts the HTTP
\* requests that went out to the provider
Raised(exc, msg, n) == [tag |-> "raise", exc |-> exc, msg |-> msg, sent |-> n]
Tuple(body, status, n) == [tag |-> "tuple", body |-> body, status |-> status, sent |-> n]
Json(body, n) == [tag |-> "json", body |-> body, sent |-> n]

\* variant: the JSON error payload is never decoded
ErrorTupleTextOnly(http) ==
    Tuple([EmptyDict EXCEPT !.error = Num(http.status), !.details = Str(http.text)],
          http.status, 1)

\* the (body, status) error tuple both provider functions build
ErrorTuple(http) ==
    Tuple([EmptyDict EXCEPT !.error = Num(http.status),
                            !.details = IF http.parseable THEN http.json
                                        ELSE Str(http.text)],
          http.status, 1)

\* requests.post / requests.get and the decoding that follows them
SendAndDecode(http) ==
    IF http.kind = "raise" THEN Raised("RequestException", "transport", 1)
    ELSE IF ~http.ok THEN ErrorTuple(http)
    ELSE IF http.parseable THEN Json(http.json, 1)
    ELSE Raised("ValueError", "invalid json", 1)

\* besttime_post_qs: the key is checked before the request is sent
besttime_post_qs(key, http) ==
    IF ~key THEN Raised("ValueError", "BestTime private API key not configured in environment", 0)
    ELSE SendAndDecode(http)

\* besttime_get_json: no key check, the request is always sent
besttime_get_json(key, http) == SendAndDecode(http)

\* ------------------------------------------------------------------ ranking
\* haversine_meters, in millimetres, tabulated for the coordinates the
\* model uses (whole degrees around the target)
HaversineTable ==
    [d \in {<<0, 0>>, <<1, 0>>, <<-1, 0>>, <<0, 1>>, <<0, -1>>, <<2, 0>>, <<-2, 0>>} |->
        CASE d = <<0, 0>> -> 0
          [] d \in {<<1, 0>>, <<-1, 0>>} -> 111195080
          [] d \in {<<0, 1>>, <<0, -1>>} -> 107892031
          [] OTHER -> 222390160]

haversine_meters(lat1, lon1, lat2, lon2) == HaversineTable[<<lat2 - lat1, lon2 - lon1>>]

\* float(x) succeeds on numbers (and numeric strings, not modelled)
FloatOk(v) == v.type = "num"

RECURSIVE NumericMeansNullAsZero(_)
\* variant: a null day_mean is taken as 0
NumericMeansNullAsZero(series) ==
    IF series = <<>> THEN <<>>
    ELSE IF Head(series).type = "num"
         THEN <<Head(series).val>> \o NumericMeansNullAsZero(Tail(series))
         ELSE IF Head(series).type = "None"
         THEN <<0>> \o NumericMeansNullAsZero(Tail(series))
         ELSE NumericMeansNullAsZero(Tail(series))

RECURSIVE NumericMeans(_)
\* the list `means` of average_day_mean: the numeric day_mean values
NumericMeans(series) ==
    IF series = <<>> THEN <<>>
    ELSE IF Head(series).type = "num"
         THEN <<Head(series).val>> \o NumericMeans(Tail(series))
         ELSE NumericMeans(Tail(series))

RECURSIVE SumSeq(_)
SumSeq(xs) == IF xs = <<>> THEN 0 ELSE Head(xs) + SumSeq(Tail(xs))

\* average_day_mean as the fraction n/d (0/1 when there is no numeric mean)
average_day_mean(venue) ==
    LET forecasts == IF Truthy(venue.venue_foot_traffic_forecast)
                     THEN venue.venue_foot_traffic_forecast.val ELSE <<>>
        means == NumericMeans(forecasts)
    IN IF means # <<>> THEN [n |-> SumSeq(means), d |-> Len(means)]
       ELSE [n |-> 0, d |-> 1]

\* variant: the key is the distance alone
KeyLeqDistanceOnly(a, b) ==
    a._distance_m <= b._distance_m

\* sort key (x["_distance_m"], -x["_avg_day_mean"]) compared with <=
KeyLeq(a, b) ==
    \/ a._distance_m < b._distance_m
    \/ /\ a._distance_m = b._distance_m
       /\ a._avg_day_mean.n * b._avg_day_mean.d >= b._avg_day_mean.n * a._avg_day_mean.d

RECURSIVE InsertSorted(_, _)
\* stable insertion: x goes after every element whose key is <= x's key
InsertSorted(x, xs) ==
    IF xs = <<>> THEN <<x>>
    ELSE IF KeyLeq(Head(xs), x) THEN <<Head(xs)>> \o InsertSorted(x, Tail(xs))
    ELSE <<x>> \o xs

RECURSIVE SortCandidates(_)
SortCandidates(xs) ==
    IF xs = <<>> THEN <<>>
    ELSE InsertSorted(xs[Len(xs)], SortCandidates(SubSeq(xs, 1, Len(xs) - 1)))

\* the loop's test on one venue: does it pass the two `continue`s
IsCandidate(v) ==
    /\ Truthy(Get(v.forecast))
    /\ Get(v.venue_lat) # None
    /\ Get(v.venue_lon) # None

Enriched(v, target_lat, target_lon) ==
    [name |-> v.name, forecast |-> v.forecast, venue_lat |-> v.venue_lat,
     venue_lon |-> v.venue_lon,
     venue_foot_traffic_forecast |-> v.venue_foot_traffic_forecast,
     _distance_m |-> haversine_meters(target_lat, target_lon, v.venue_lat.val, v.venue_lon.val),
     _avg_day_mean |-> average_day_mean(v)]

RECURSIVE Candidates(_, _, _)
Candidates(venues, target_lat, target_lon) ==
    IF venues = <<>> THEN <<>>
    ELSE IF IsCandidate(Head(venues))
         THEN <<Enriched(Head(venues), target_lat, target_lon)>>
              \o Candidates(Tail(venues), target_lat, target_lon)
         ELSE Candidates(Tail(venues), target_lat, target_lon)

\* variant: the slice keeps one entry more
SliceOneMore(xs, n) ==
    IF n >= 0 THEN SubSeq(xs, 1, Min(n + 1, Len(xs)))
    ELSE SubSeq(xs, 1, IF Len(xs) + n > 0 THEN Len(xs) + n ELSE 0)

\* candidates[:top_n], with Python's meaning of a zero or negative top_n
Slice(xs, n) ==
    IF n >= 0 THEN SubSeq(xs, 1, Min(n, Len(xs)))
    ELSE SubSeq(xs, 1, IF Len(xs) + n > 0 THEN Len(xs) + n ELSE 0)

\* float(lat) / float(lon) raises on a candidate's non-numeric coordinate
RankRaises(venues) ==
    \E i \in 1..Len(venues) :
        /\ IsCandidate(venues[i])
        /\ ~(FloatOk(venues[i].venue_lat) /\ FloatOk(venues[i].venue_lon))

top_closest_with_foot_traffic(venues, target_lat, target_lon, top_n) ==
    Slice(SortCandidates(Candidates(venues, target_lat, target_lon)), top_n)

\* The objects the call works on. The caller's list holds references to the
\* venue dicts 1..n; the loop writes the two derived fields into the object
\* v_copy of each candidate it gets to.
\* variant: v_copy is the venue itself
CopyOfAlias(i, n) == i

\* v_copy = dict(v): a new object, n + i for the i-th of n venues
CopyOf(i, n) == n + i

\* the positions whose v_copy is written: the candidates before the first one
\* on which float() raises
WrittenPositions(venues) ==
    {i \in 1..Len(venues) :
        /\ IsCandidate(venues[i])
        /\ \A j \in 1..i :
              IsCandidate(venues[j]) => FloatOk(venues[j].venue_lat) /\ FloatOk(venues[j].venue_lon)}

\* the objects when the call is over (None: never allocated)
HeapAfterRank(venues, target_lat, target_lon) ==
    LET n == Len(venues)
        written == WrittenPositions(venues)
    IN [id \in 1..(2 * n) |->
          IF \E i \in written : CopyOf(i, n) = id
          THEN Enriched(venues[CHOOSE i \in written : CopyOf(i, n) = id], target_lat, target_lon)
          ELSE IF id <= n THEN venues[id]
          ELSE None]

\* the caller's list read again after the call: `venues` is only iterated, so
\* it still refers to the objects 1..n, in that order
InputAfterRank(venues, target_lat, target_lon) ==
    [k \in 1..Len(venues) |-> HeapAfterRank(venues, target_lat, target_lon)[k]]

\* ---------------------------------------------------------------- handlers
\* a Flask response: status and the JSON body's keys
NoBody ==
    [error |-> Absent, details |-> Absent, search_response |-> Absent,
     progress_response |-> Absent, progress_link |-> Absent,
     top_venues |-> Absent, data |-> Absent]
Response(status, body) == [status |-> status, body |-> body]
ErrorResponse(status, msg) == Response(status, [NoBody EXCEPT !.error = Str(msg)])
\* return jsonify(body), status for the provider's error tuple
PassThrough(r) ==
    Response(r.status, [NoBody EXCEPT !.error = r.body.error, !.details = r.body.details])
\* the two except clauses of a handler: both answer 500 with str(e)
ExceptionResponse(r) == ErrorResponse(HttpServerError, r.msg)

\* variant: the alias is looked at before "venues"
ExtractVenuesResultsFirst(result) ==
    IF ~IsDict(result) THEN <<>>
    ELSE IF result.results.type # "absent" /\ IsList(result.results) THEN result.results.val
    ELSE IF result.venues.type # "absent" /\ IsList(result.venues) THEN result.venues.val
    ELSE <<>>

\* lines 235-243: the fast path's venue list
ExtractVenues(result) ==
    IF ~IsDict(result) THEN <<>>
    ELSE IF result.venues.type # "absent" /\ IsList(result.venues) THEN result.venues.val
    ELSE IF result.results.type # "absent" /\ IsList(result.results) THEN result.results.val
    ELSE <<>>

ContainsProgressPath(v) == v.type = "str" /\ v.path = "venues/progress"

\* lines 259-263: the first string value that contains "venues/progress"
ScanForLink(result) ==
    LET vals == <<result.job_id, result.job, result.collection_id, result.other>>
        hits == {i \in 1..Len(vals) : ContainsProgressPath(vals[i])}
    IN IF hits = {} THEN None
       ELSE vals[CHOOSE i \in hits : \A j \in hits : i <= j]

\* lines 248-263: job_id, collection_id and progress_link of the handler
DetectJob(result) ==
    IF ~IsDict(result)
    THEN [job_id |-> None, collection_id |-> None, progress_link |-> None]
    ELSE LET link == Get(result.links)
         IN [job_id |-> PyOr(Get(result.job_id), Get(result.job)),
             collection_id |-> Get(result.collection_id),
             progress_link |-> IF Truthy(link) THEN link ELSE ScanForLink(result)]

\* qs.get(name, [None])[0] after parse_qs, which drops blank values
QueryParam(value) == IF value = "" THEN None ELSE Str(value)

\* variant: a missing collection id is taken to be the job id
ResolveIdsOneIdEnough(job_id, collection_id, progress_url) ==
    IF Truthy(progress_url)
    THEN [job_id |-> PyOr(job_id, QueryParam(progress_url.qjob)),
          collection_id |-> PyOr(PyOr(collection_id, QueryParam(progress_url.qcoll)), job_id)]
    ELSE [job_id |-> job_id, collection_id |-> PyOr(collection_id, job_id)]

\* lines 74-79: the identifiers wait_for_progress_and_get_venues polls with
ResolveIds(job_id, collection_id, progress_url) ==
    IF Truthy(progress_url)
    THEN [job_id |-> PyOr(job_id, QueryParam(progress_url.qjob)),
          collection_id |-> PyOr(collection_id, QueryParam(progress_url.qcoll))]
    ELSE [job_id |-> job_id, collection_id |-> collection_id]

\* the key order of lines 101-106
VenueKeys == <<"venues", "results", "items", "found_venues">>

KeyValue(body, key) ==
    CASE key = "venues" -> body.venues
      [] key = "results" -> body.results
      [] key = "items" -> body.items
      [] key = "found_venues" -> body.found_venues

KeyHolds(body, key) ==
    LET v == KeyValue(body, key) IN v.type # "absent" /\ IsList(v) /\ Truthy(v)

\* variant: a list under "venues" settles the lookup even when it is empty
FindVenuesEmptyListBlocks(last_resp) ==
    IF ~IsDict(last_resp) THEN None
    ELSE IF last_resp.venues.type # "absent" /\ IsList(last_resp.venues)
    THEN (IF Truthy(last_resp.venues) THEN last_resp.venues ELSE None)
    ELSE LET hits == {i \in 1..Len(VenueKeys) : KeyHolds(last_resp, VenueKeys[i])}
         IN IF hits = {} THEN None
            ELSE KeyValue(last_resp, VenueKeys[CHOOSE i \in hits : \A j \in hits : i <= j])

\* variant: only the "venues" key is looked at
FindVenuesFirstKeyOnly(last_resp) ==
    IF IsDict(last_resp) /\ KeyHolds(last_resp, "venues") THEN last_resp.venues ELSE None

\* lines 99-106: the venue list of a progress body, or None
FindVenues(last_resp) ==
    IF ~IsDict(last_resp) THEN None
    ELSE LET hits == {i \in 1..Len(VenueKeys) : KeyHolds(last_resp, VenueKeys[i])}
         IN IF hits = {} THEN None
            ELSE KeyValue(last_resp, VenueKeys[CHOOSE i \in hits : \A j \in hits : i <= j])

\* variant: the interval doubles
NextIntervalDoubling(i) ==
    IF 2 * i >= BackoffCapSec * TicksPerSecond
    THEN BackoffCapSec * TicksPerSecond
    ELSE 2 * i

\* variant: no backoff, the interval stays what it was
NextIntervalConstant(i) == i

\* line 111: interval_seconds = min(interval_seconds * 1.5, 8), in ticks
NextInterval(i) ==
    IF 3 * i >= 2 * BackoffCapSec * TicksPerSecond
    THEN BackoffCapSec * TicksPerSecond
    ELSE (3 * i) \div 2

\* variant: no link is synthesized from the identifiers
ResumeLinkProviderOnly(d) == d.progress_link

\* line 288: the link the 202 answer carries
ResumeLink(d) ==
    PyOr(d.progress_link,
         IF Truthy(d.job_id) /\ Truthy(d.collection_id)
         THEN Url("venues/progress", d.job_id.path, d.collection_id.path)
         ELSE None)

\* lines 284-289
StillRunningResponse(res, progress_resp, d) ==
    Response(HttpAccepted,
             [NoBody EXCEPT !.error = Str("Venue search still running (timed out while polling)."),
                            !.search_response = res,
                            !.progress_response = progress_resp,
                            !.progress_link = ResumeLink(d)])

\* lines 291-298: the 404, or the ranking and its answer
RankResponse(venues, p, result) ==
    IF venues = <<>>
    THEN Response(HttpNotFound,
                  [NoBody EXCEPT !.error = Str("No venues found in BestTime response"),
                                 !.search_response = result])
    ELSE IF ~(FloatOk(p.lat) /\ FloatOk(p.lng)) \/ RankRaises(venues)
    THEN ErrorResponse(HttpServerError, "could not convert string to float")
    ELSE Response(HttpOk,
                  [NoBody EXCEPT !.top_venues =
                                    List(top_closest_with_foot_traffic(venues, p.lat.val,
                                                                       p.lng.val, p.top_n.val)),
                                 !.search_response = result])

\* the list handed to top_closest_with_foot_traffic, None when it is not called
RankedFrom(venues, p) ==
    IF venues # <<>> /\ FloatOk(p.lat) /\ FloatOk(p.lng) THEN List(venues) ELSE None

\* ------------------------------------------------------------------ inputs
Payload(bt, lat, lng, top_n, timeout, interval) ==
    [business_type |-> bt, lat |-> lat, lng |-> lng, radius |-> Num(2000), top_n |-> top_n,
     progress_timeout |-> timeout, progress_interval |-> interval]

Timeouts == (-1)..MaxTimeoutSec
Intervals == (1..MaxIntervalSec) \cup {BigIntervalSec}

TimingPayloads ==
    {Payload(Str("cafe"), Num(14), Num(120), Num(2), Num(t), Num(i)) :
        t \in Timeouts, i \in Intervals}

PlainPayload == Payload(Str("cafe"), Num(14), Num(120), Num(2), Num(1), Num(1))

OddPayloads ==
    {[PlainPayload EXCEPT !.business_type = Absent],
     [PlainPayload EXCEPT !.business_type = Str("")],
     [PlainPayload EXCEPT !.lat = Absent],
     [PlainPayload EXCEPT !.lng = None],
     [PlainPayload EXCEPT !.lat = Str("abc")],
     [PlainPayload EXCEPT !.top_n = Num(1)],
     [PlainPayload EXCEPT !.top_n = Num(0)],
     [PlainPayload EXCEPT !.top_n = Num(-1)],
     [PlainPayload EXCEPT !.radius = Num(0)],
     [PlainPayload EXCEPT !.radius = Num(-5)]}

ListA == <<VenueNorth>>
ListB == <<VenueNorth, VenueSouth, VenueNear>>
ListC == <<VenueNoForecast>>
ListD == <<VenueBadLat, VenueNorth>>
ListE == <<VenueNoLat, VenueNorth, VenueNoLon>>

ProgressUrl == Url("venues/progress", "j9", "c9")
ProgressUrlJobOnly == Url("venues/progress", "j9", "")

\* search bodies that differ in the venue keys only
VenueKeyBodies ==
    {[EmptyDict EXCEPT !.venues = v, !.results = r, !.items = i] :
        v \in {Absent, None, List(<<>>), List(ListA), List(ListB), List(ListD), List(ListE)},
        r \in {Absent, List(<<>>), List(ListC)},
        i \in {Absent, List(ListA)}}

\* search bodies that differ in the job information
JobBodies ==
    {[EmptyDict EXCEPT !.venues = v, !.job_id = j[1], !.job = j[2],
                       !.collection_id = c, !.links = l[1], !.other = l[2]] :
        v \in {Absent, List(<<>>), List(ListA)},
        j \in {<<Absent, Absent>>, <<Str("j1"), Absent>>, <<Absent, Str("j2")>>},
        c \in {Absent, Str("c1")},
        l \in {<<Absent, Absent>>, <<ProgressUrl, Absent>>, <<ProgressUrlJobOnly, Absent>>,
               <<Str(""), ProgressUrl>>, <<Absent, Str("done")>>}}

DeferredBody == [EmptyDict EXCEPT !.job_id = Str("j1"), !.collection_id = Str("c1")]

SearchHttp ==
    {OkResponse(b) : b \in VenueKeyBodies \cup JobBodies \cup {List(<<>>)}}
    \cup FailureResponses \cup {TransportError, OkNotJson}

\* the (payload, provider answer) pairs of POST /foot_traffic/closest
ClosestInputs ==
    (TimingPayloads \X {OkResponse(DeferredBody)})
    \cup (({PlainPayload} \cup OddPayloads) \X SearchHttp)

\* what the provider may answer to one progress call
NotReadyHttp ==
    {OkResponse(EmptyDict), OkResponse(List(<<>>)), OkResponse([EmptyDict EXCEPT !.venues = List(<<>>)])}
    \cup {f \in FailureResponses : f.status = 503}

ReadyHttp ==
    {OkResponse([EmptyDict EXCEPT !.venues = List(ListA)]),
     OkResponse([EmptyDict EXCEPT !.venues = List(<<>>), !.results = List(ListB)]),
     OkResponse([EmptyDict EXCEPT !.items = List(ListC), !.found_venues = List(ListA)]),
     OkResponse([EmptyDict EXCEPT !.venues = List(ListB), !.results = List(ListA)])}

ProgressHttp == NotReadyHttp \cup ReadyHttp \cup {TransportError, OkNotJson}

CallDurations == {0, MaxCallSec * TicksPerSecond}

\* the arguments of a direct call of top_closest_with_foot_traffic
RankVenues ==
    {VenueNear, VenueNorth, VenueSouth, VenueWest, VenueNoForecast, VenueEmptySeries,
     VenueNoLat, VenueNoLon, VenueBadLat}
RankLists == UNION {[1..n -> RankVenues] : n \in 0..MaxRankLen}
TopNs == (-1)..MaxTopN
RankTarget == [lat |-> PlainPayload.lat.val, lon |-> PlainPayload.lng.val]

\* the arguments of a direct call of average_day_mean: what a forecast day
\* may hold as day_info.day_mean, and the venue's series
DayMeans == {Num(0), Num(5), Num(10), None, Absent, Str("high")}
SeriesValues ==
    {List(xs) : xs \in UNION {[1..n -> DayMeans] : n \in 0..MaxSeriesLen}} \cup {None, Absent}
MeanVenues == {Venue("v", Num(1), Num(14), Num(120), sv) : sv \in SeriesValues}

\* ------------------------------------------------------------------- state
VARIABLES
    hasKey,       \* BESTTIME_PRIVATE_KEY is set
    pc,           \* "idle", "loop" (at the while test), "sleep", "done"
    endpoint,     \* the route handler that runs
    now,          \* ticks since the request came in
    payload,      \* the request's JSON body
    search_http,  \* the provider's answer to the search request, None if none was sent
    result,       \* the handler's `result`: the search response body
    det,          \* the handler's job_id, collection_id, progress_link
    poll,         \* locals of wait_for_progress_and_get_venues
    log,          \* the progress calls made: start time and provider answer
    sleeps,       \* the backoff sleeps taken: start time and length
    sent,         \* HTTP requests sent to the provider for this request
    ranked_from,  \* the list handed to top_closest_with_foot_traffic
    response,     \* the handler's answer
    cancelled,    \* the caller gave the request up while it was polling
    rank_call,    \* a call of top_closest_with_foot_traffic: arguments and result
    mean_call,    \* a call of average_day_mean: argument and result
    otp_table,    \* the rows of otp_verifications, by id
    users,        \* the emails of the rows of users
    clock,        \* datetime.utcnow(), in seconds
    db_conn,      \* the module's _db_conn: 0 for None, else a connection
    conns,        \* how many connections were opened
    closed,       \* the connections that were closed
    handlers,     \* the account requests being handled, by worker thread
    started,      \* how many account requests were started
    latest,       \* per email, the code of the last OTP that was stored
    accepted,     \* per email, the OTP row /verify_otp accepted, 0 once a new one is stored
    wrong_compared \* per OTP row, how many wrong codes were compared with it

vars == <<hasKey, pc, endpoint, now, payload, search_http, result, det, poll, log, sleeps,
          sent, ranked_from, response, cancelled, rank_call, mean_call,
          otp_table, users, clock, db_conn, conns, closed, handlers, started, latest,
          accepted, wrong_compared>>

\* the state of the foot-traffic service and of the pure calls
svcvars == <<hasKey, pc, endpoint, now, payload, search_http, result, det, poll, log, sleeps,
             sent, ranked_from, response, cancelled, rank_call, mean_call>>

\* the state of the account endpoints
authvars == <<otp_table, users, clock, db_conn, conns, closed, handlers, started, latest,
              accepted, wrong_compared>>

NoPoll == [job_id |-> None, collection_id |-> None, deadline |-> 0,
           interval_seconds |-> 0, last_resp |-> None, venues_found |-> None]
NoDet == [job_id |-> None, collection_id |-> None, progress_link |-> None]

\* ------------------------------------------------------ the account endpoints
\* worker threads of the server; each handles one request at a time
Handlers == {"h1", "h2"}
Emails == {"a@x.io"}
\* what generate_otp may return, and what a client may send as a code
Codes == {"111111", "222222"}
Guesses == Codes \cup {"000000"}

IdleHandler ==
    [op |-> "none", pc |-> "idle", email |-> "", otp |-> "", conn |-> 0, row |-> 0,
     expires_at |-> 0, status |-> 0, error |-> "", accepted_before |-> 0]

\* no row in either table, _db_conn = None (my_app.py:183)
AuthInit ==
    /\ otp_table = <<>>
    /\ users = {}
    /\ clock = 0
    /\ db_conn = 0
    /\ conns = 0
    /\ closed = {}
    /\ handlers = [h \in Handlers |-> IdleHandler]
    /\ started = 0
    /\ latest = [e \in Emails |-> ""]
    /\ accepted = [e \in Emails |-> 0]
    /\ wrong_compared = <<>>

Init ==
    /\ hasKey \in BOOLEAN
    /\ pc = "idle"
    /\ endpoint = "none"
    /\ now = 0
    /\ payload = None
    /\ search_http = None
    /\ result = None
    /\ det = NoDet
    /\ poll = NoPoll
    /\ log = <<>>
    /\ sleeps = <<>>
    /\ sent = 0
    /\ ranked_from = None
    /\ response = None
    /\ cancelled = FALSE
    /\ rank_call = None
    /\ mean_call = None
    /\ AuthInit

\* ----------------------------------------------------------------- actions
\* the handler returns: the answer is recorded and the request is over
Return(resp) ==
    /\ pc' = "done"
    /\ response' = resp

\* lines 279-298 once wait_for_progress_and_get_venues found venues
RankAndReturn(venues, p, res) ==
    /\ ranked_from' = RankedFrom(venues, p)
    /\ Return(RankResponse(venues, p, res))

\* lines 267-268: the poll timeout and the initial interval, the payload's or
\* the defaults (the two environment variables are taken as not set)
TimeoutSeconds(p) ==
    IF p.progress_timeout.type = "absent" THEN DefaultTimeoutSec ELSE p.progress_timeout.val
IntervalSeconds(p) ==
    IF p.progress_interval.type = "absent" THEN DefaultIntervalSec ELSE p.progress_interval.val

\* POST /foot_traffic/closest, from the request up to its answer or up to
\* the first test of the poll loop (lines 204-277 and 74-86)
ClosestRequest(p, http) ==
    /\ pc = "idle"
    /\ endpoint' = "closest"
    /\ payload' = p
    /\ now' = 0
    /\ log' = <<>>
    /\ sleeps' = <<>>
    /\ UNCHANGED <<authvars, hasKey, cancelled, rank_call, mean_call>>
    /\ IF ~Truthy(Get(p.business_type))
       THEN /\ Return(ErrorResponse(HttpBadRequest, "Missing business_type (or q) in request body"))
            /\ sent' = 0
            /\ UNCHANGED <<search_http, result, det, poll, ranked_from>>
       ELSE IF Get(p.lat) = None \/ Get(p.lng) = None
       THEN /\ Return(ErrorResponse(HttpBadRequest, "Missing lat or lng in request body"))
            /\ sent' = 0
            /\ UNCHANGED <<search_http, result, det, poll, ranked_from>>
       ELSE LET r == besttime_post_qs(hasKey, http) IN
            /\ sent' = r.sent
            /\ search_http' = IF r.sent > 0 THEN http ELSE None
            /\ IF r.tag = "raise"
               THEN /\ Return(ExceptionResponse(r))
                    /\ UNCHANGED <<result, det, poll, ranked_from>>
               ELSE IF r.tag = "tuple"
               THEN /\ Return(PassThrough(r))
                    /\ UNCHANGED <<result, det, poll, ranked_from>>
               ELSE LET venues == ExtractVenues(r.body)
                        d == DetectJob(r.body)
                        ids == ResolveIds(d.job_id, d.collection_id, d.progress_link)
                    IN
                    /\ result' = r.body
                    /\ IF venues # <<>>
                       THEN /\ RankAndReturn(venues, p, r.body)
                            /\ UNCHANGED <<det, poll>>
                       ELSE IF ~(Truthy(d.job_id) \/ Truthy(d.collection_id) \/ Truthy(d.progress_link))
                       THEN /\ RankAndReturn(venues, p, r.body)
                            /\ UNCHANGED <<det, poll>>
                       ELSE IF ~Truthy(ids.job_id) \/ ~Truthy(ids.collection_id)
                       THEN /\ Return(ErrorResponse(HttpServerError,
                                        "Either job_id+collection_id or progress_url must be provided"))
                            /\ det' = d
                            /\ UNCHANGED <<poll, ranked_from>>
                       ELSE /\ pc' = "loop"
                            /\ det' = d
                            /\ poll' = [job_id |-> ids.job_id,
                                        collection_id |-> ids.collection_id,
                                        deadline |-> TimeoutSeconds(p) * TicksPerSecond,
                                        interval_seconds |-> IntervalSeconds(p) * TicksPerSecond,
                                        last_resp |-> None,
                                        venues_found |-> None]
                            /\ UNCHANGED <<ranked_from, response>>

\* one pass of the loop body up to the sleep (lines 87-106): the while test
\* holds, the progress call takes d ticks and its answer is inspected
PollAttempt(http, d) ==
    /\ pc = "loop"
    /\ now < poll.deadline
    /\ LET r == besttime_get_json(hasKey, http)
           last == r.body
           found == FindVenues(last)
       IN
       /\ log' = Append(log, [t |-> now, http |-> http, d |-> d])
       /\ now' = now + d
       /\ sent' = sent + r.sent
       /\ IF r.tag = "raise"
          THEN /\ Return(ExceptionResponse(r))
               /\ UNCHANGED <<poll, ranked_from>>
          ELSE IF found # None
          THEN /\ poll' = [poll EXCEPT !.last_resp = last, !.venues_found = found]
               /\ RankAndReturn(found.val, payload, result)
          ELSE /\ poll' = [poll EXCEPT !.last_resp = last]
               /\ pc' = "sleep"
               /\ UNCHANGED <<ranked_from, response>>
    /\ UNCHANGED <<authvars, hasKey, cancelled, rank_call, mean_call, endpoint, payload, search_http, result, det, sleeps>>

\* lines 109-112: the backoff sleep and the next interval
Sleep ==
    /\ pc = "sleep"
    /\ sleeps' = Append(sleeps, [t |-> now, len |-> poll.interval_seconds])
    /\ now' = now + poll.interval_seconds
    /\ poll' = [poll EXCEPT !.interval_seconds = NextInterval(poll.interval_seconds)]
    /\ pc' = "loop"
    /\ UNCHANGED <<authvars, hasKey, cancelled, rank_call, mean_call, endpoint, payload, search_http, result, det, log, sent, ranked_from, response>>

\* variant: the timeout is declared when the next sleep would pass the deadline
PollTimeoutEarly ==
    /\ pc = "loop"
    /\ ~(now + poll.interval_seconds < poll.deadline)
    /\ Return(StillRunningResponse(result, poll.last_resp, det))
    /\ UNCHANGED <<authvars, hasKey, cancelled, rank_call, mean_call, endpoint, now, payload, search_http, result, det, poll, log, sleeps,
                   sent, ranked_from>>

\* variant: the exit test is strict, so the loop has no way out at now = deadline
PollTimeoutStrict ==
    /\ pc = "loop"
    /\ now > poll.deadline
    /\ Return(StillRunningResponse(result, poll.last_resp, det))
    /\ UNCHANGED <<authvars, hasKey, cancelled, rank_call, mean_call, endpoint, now, payload, search_http, result, det, poll, log, sleeps,
                   sent, ranked_from>>

\* the while test fails (line 87): return None, last_resp (line 115) and the
\* handler's 202 answer (lines 282-289)
PollTimeout ==
    /\ pc = "loop"
    /\ ~(now < poll.deadline)
    /\ Return(StillRunningResponse(result, poll.last_resp, det))
    /\ UNCHANGED <<authvars, hasKey, cancelled, rank_call, mean_call, endpoint, now, payload, search_http, result, det, poll, log, sleeps,
                   sent, ranked_from>>

\* the caller gives the request up while it is in the poll loop (the client
\* closes the connection, an enclosing timeout fires): neither the handler nor
\* wait_for_progress_and_get_venues takes a cancellation signal, so their
\* state is left as it is
Cancel ==
    /\ pc \in {"loop", "sleep"}
    /\ ~cancelled
    /\ cancelled' = TRUE
    /\ UNCHANGED <<authvars, hasKey, pc, endpoint, now, payload, search_http, result, det, poll, log,
                   sleeps, sent, ranked_from, response, rank_call, mean_call>>

\* what a pass-through handler answers for a provider call's result
Relay(r) ==
    IF r.tag = "raise" THEN ExceptionResponse(r)
    ELSE IF r.tag = "tuple" THEN PassThrough(r)
    ELSE Response(HttpOk, [NoBody EXCEPT !.data = r.body])

ProgressArgs ==
    {[job_id |-> j, collection_id |-> c] : j \in {None, Str("j1")}, c \in {None, Str("c1")}}

\* GET /foot_traffic/progress (lines 174-192)
ProgressRequest(args, http) ==
    /\ pc = "idle"
    /\ endpoint' = "progress"
    /\ payload' = args
    /\ now' = 0
    /\ IF ~Truthy(args.job_id) \/ ~Truthy(args.collection_id)
       THEN /\ Return(ErrorResponse(HttpBadRequest, "Missing job_id or collection_id"))
            /\ sent' = 0
            /\ log' = <<>>
       ELSE LET r == besttime_get_json(hasKey, http) IN
            /\ Return(Relay(r))
            /\ sent' = r.sent
            /\ log' = <<[t |-> 0, http |-> http, d |-> 0]>>
    /\ sleeps' = <<>>
    /\ UNCHANGED <<authvars, hasKey, cancelled, rank_call, mean_call, search_http, result, det, poll, ranked_from>>

SearchPayloads == {[q |-> q] : q \in {Absent, Str(""), Str("cafe")}}

\* POST /foot_traffic/search (lines 131-159)
SearchRequest(p, http) ==
    /\ pc = "idle"
    /\ endpoint' = "search"
    /\ payload' = p
    /\ now' = 0
    /\ IF ~Truthy(Get(p.q))
       THEN /\ Return(ErrorResponse(HttpBadRequest, "Missing q"))
            /\ sent' = 0
            /\ search_http' = None
       ELSE LET r == besttime_post_qs(hasKey, http) IN
            /\ Return(Relay(r))
            /\ sent' = r.sent
            /\ search_http' = IF r.sent > 0 THEN http ELSE None
    /\ log' = <<>>
    /\ sleeps' = <<>>
    /\ UNCHANGED <<authvars, hasKey, cancelled, rank_call, mean_call, result, det, poll, ranked_from>>

\* the answer is delivered; the worker takes the next request
Finish ==
    /\ pc = "done"
    /\ pc' = "idle"
    /\ endpoint' = "none"
    /\ now' = 0
    /\ payload' = None
    /\ search_http' = None
    /\ result' = None
    /\ det' = NoDet
    /\ poll' = NoPoll
    /\ log' = <<>>
    /\ sleeps' = <<>>
    /\ sent' = 0
    /\ ranked_from' = None
    /\ response' = None
    /\ cancelled' = FALSE
    /\ UNCHANGED <<authvars, hasKey, rank_call, mean_call>>

Next ==
    \/ \E i \in ClosestInputs : ClosestRequest(i[1], i[2])
    \/ \E http \in ProgressHttp, d \in CallDurations : PollAttempt(http, d)
    \/ Sleep
    \/ PollTimeout
    \/ Cancel
    \/ \E a \in ProgressArgs, http \in ProgressHttp : ProgressRequest(a, http)
    \/ \E p \in SearchPayloads, http \in SearchHttp : SearchRequest(p, http)
    \/ Finish

Spec == Init /\ [][Next]_vars

\* a request that was accepted runs to its answer: the Flask worker keeps
\* executing the handler, the provider call returns or raises within its
\* timeout, and time.sleep returns
HandlerStep == (\E http \in ProgressHttp, d \in CallDurations : PollAttempt(http, d)) \/ Sleep \/ PollTimeout

LiveSpec == Init /\ [][Next]_vars /\ WF_vars(HandlerStep)

TypeOK ==
    /\ pc \in {"idle", "loop", "sleep", "done"}
    /\ now >= 0
    /\ sent >= 0

\* ----------------------------------------------- the account endpoints' steps
\* UNIQUE (email, is_verified) of otp_verifications
UniqueHolds(table) ==
    \A i, j \in 1..Len(table) :
        i # j => ~(table[i].email = table[j].email /\ table[i].is_verified = table[j].is_verified)

\* the SELECT of verify_otp: the newest unverified row of the email, 0 for none
ActiveRow(email) ==
    LET ids == {i \in 1..Len(otp_table) :
                   otp_table[i].email = email /\ ~otp_table[i].is_verified}
    IN IF ids = {} THEN 0 ELSE CHOOSE i \in ids : \A j \in ids : j <= i

\* the first statement of each endpoint after conn = get_db_conn()
FirstStep(op) ==
    CASE op = "send_otp" -> "check_user"
      [] op = "resend_otp" -> "store_update"
      [] op = "verify_otp" -> "verify_select"
      [] op = "signup" -> "verify_select"
      [] op = "login" -> "select_user"

\* the endpoint's answer is decided; what is left is its finally block
Answer(h, status, error) ==
    handlers' = [handlers EXCEPT ![h].status = status, ![h].error = error, ![h].pc = "finally"]

\* a statement on a connection that was closed raises InterfaceError, which
\* every endpoint's `except Exception` answers with 500
OnClosed(h) == handlers[h].conn \in closed
RaiseClosed(h) == Answer(h, HttpServerError, "connection already closed")

\* a request arrives and a worker picks it up; limit bounds the requests
StartRequest(h, r, limit) ==
    /\ handlers[h].pc = "idle"
    /\ started < limit
    /\ started' = started + 1
    /\ handlers' = [handlers EXCEPT ![h] =
                      [IdleHandler EXCEPT !.op = r.op, !.pc = "conn", !.email = r.email,
                                          !.otp = r.otp,
                                          !.accepted_before = accepted[r.email]]]
    /\ UNCHANGED <<svcvars, otp_table, users, clock, db_conn, conns, closed, latest, accepted,
                   wrong_compared>>

\* get_db_conn (my_app.py:205-220): a new connection when there is none or it
\* is closed, else the module's connection after a SELECT 1 on it
GetDbConn(h) ==
    /\ handlers[h].pc = "conn"
    /\ IF db_conn = 0 \/ db_conn \in closed
       THEN /\ conns' = conns + 1
            /\ db_conn' = conns + 1
       ELSE UNCHANGED <<conns, db_conn>>
    /\ handlers' = [handlers EXCEPT ![h].conn = db_conn', ![h].pc = FirstStep(handlers[h].op)]
    /\ UNCHANGED <<svcvars, otp_table, users, clock, closed, started, latest, accepted,
                   wrong_compared>>

\* send_otp's SELECT id FROM users WHERE email (my_app.py:1213-1216)
CheckUser(h) ==
    /\ handlers[h].pc = "check_user"
    /\ IF OnClosed(h) THEN RaiseClosed(h)
       ELSE IF handlers[h].email \in users
       THEN Answer(h, HttpBadRequest, "Email already registered")
       ELSE handlers' = [handlers EXCEPT ![h].pc = "store_update"]
    /\ UNCHANGED <<svcvars, otp_table, users, clock, db_conn, conns, closed, started, latest,
                   accepted, wrong_compared>>

\* store_otp up to its UPDATE (my_app.py:96-104): expires_at is taken, then the
\* email's unverified rows are set to verified
StoreUpdate(h) ==
    /\ handlers[h].pc = "store_update"
    /\ LET email == handlers[h].email
           updated == [i \in 1..Len(otp_table) |->
                          IF otp_table[i].email = email /\ ~otp_table[i].is_verified
                          THEN [otp_table[i] EXCEPT !.is_verified = TRUE]
                          ELSE otp_table[i]]
       IN IF OnClosed(h) THEN RaiseClosed(h) /\ UNCHANGED otp_table
          ELSE IF ~UniqueHolds(updated)
          THEN Answer(h, HttpServerError, "unique_active_otp") /\ UNCHANGED otp_table
          ELSE /\ otp_table' = updated
               /\ handlers' = [handlers EXCEPT ![h].pc = "store_insert",
                                               ![h].expires_at = clock + OTP_TTL_SECONDS]
    /\ UNCHANGED <<svcvars, users, clock, db_conn, conns, closed, started, latest, accepted,
                   wrong_compared>>

\* store_otp's INSERT (my_app.py:107-113)
StoreInsert(h) ==
    /\ handlers[h].pc = "store_insert"
    /\ LET email == handlers[h].email
           inserted == Append(otp_table,
                              [email |-> email, otp_code |-> handlers[h].otp,
                               expires_at |-> handlers[h].expires_at,
                               is_verified |-> FALSE, attempts |-> 0])
       IN IF OnClosed(h)
          THEN RaiseClosed(h) /\ UNCHANGED <<otp_table, latest, accepted, wrong_compared>>
          ELSE IF ~UniqueHolds(inserted)
          THEN /\ Answer(h, HttpServerError, "unique_active_otp")
               /\ UNCHANGED <<otp_table, latest, accepted, wrong_compared>>
          ELSE /\ otp_table' = inserted
               /\ wrong_compared' = Append(wrong_compared, 0)
               /\ latest' = [latest EXCEPT ![email] = handlers[h].otp]
               /\ accepted' = [accepted EXCEPT ![email] = 0]
               /\ handlers' = [handlers EXCEPT ![h].pc = "send_email"]
    /\ UNCHANGED <<svcvars, users, clock, db_conn, conns, closed, started>>

\* send_otp_email succeeds or not (my_app.py:1223-1231, 1293-1301)
SendEmail(h, ok) ==
    /\ handlers[h].pc = "send_email"
    /\ IF ok THEN Answer(h, HttpOk, "")
       ELSE Answer(h, HttpServerError, "Failed to send email")
    /\ UNCHANGED <<svcvars, otp_table, users, clock, db_conn, conns, closed, started, latest,
                   accepted, wrong_compared>>

\* verify_otp from its SELECT to the comparison of the code (my_app.py:120-142)
VerifySelect(h) ==
    /\ handlers[h].pc = "verify_select"
    /\ LET row == ActiveRow(handlers[h].email) IN
       IF OnClosed(h) THEN RaiseClosed(h) /\ UNCHANGED wrong_compared
       ELSE IF row = 0
       THEN Answer(h, HttpBadRequest, "No verification code found") /\ UNCHANGED wrong_compared
       ELSE IF clock > otp_table[row].expires_at
       THEN Answer(h, HttpBadRequest, "Verification code has expired") /\ UNCHANGED wrong_compared
       ELSE IF otp_table[row].attempts >= MAX_OTP_ATTEMPTS
       THEN Answer(h, HttpBadRequest, "Too many failed attempts") /\ UNCHANGED wrong_compared
       ELSE IF otp_table[row].otp_code = handlers[h].otp
       THEN /\ handlers' = [handlers EXCEPT ![h].pc = "verify_mark", ![h].row = row]
            /\ UNCHANGED wrong_compared
       ELSE /\ handlers' = [handlers EXCEPT ![h].pc = "verify_incr", ![h].row = row]
            /\ wrong_compared' = [wrong_compared EXCEPT ![row] = @ + 1]
    /\ UNCHANGED <<svcvars, otp_table, users, clock, db_conn, conns, closed, started, latest,
                   accepted>>

\* the code matched: UPDATE ... SET is_verified = TRUE WHERE id (my_app.py:144-150),
\* then /verify_otp answers 200 and /signup goes on to its INSERT; the
\* IntegrityError of the constraint is answered 400 by /signup (my_app.py:1356)
VerifyMark(h) ==
    /\ handlers[h].pc = "verify_mark"
    /\ LET row == handlers[h].row
           updated == [otp_table EXCEPT ![row].is_verified = TRUE]
       IN IF OnClosed(h) THEN RaiseClosed(h) /\ UNCHANGED <<otp_table, accepted>>
          ELSE IF ~UniqueHolds(updated)
          THEN /\ Answer(h, IF handlers[h].op = "signup" THEN HttpBadRequest
                            ELSE HttpServerError, "unique_active_otp")
               /\ UNCHANGED <<otp_table, accepted>>
          ELSE /\ otp_table' = updated
               /\ IF handlers[h].op = "signup"
                  THEN /\ handlers' = [handlers EXCEPT ![h].pc = "insert_user"]
                       /\ UNCHANGED accepted
                  ELSE /\ Answer(h, HttpOk, "")
                       /\ accepted' = [accepted EXCEPT ![handlers[h].email] = row]
    /\ UNCHANGED <<svcvars, users, clock, db_conn, conns, closed, started, latest,
                   wrong_compared>>

\* the code did not match: UPDATE ... SET attempts = attempts + 1 WHERE id
\* (my_app.py:152-164)
VerifyIncr(h) ==
    /\ handlers[h].pc = "verify_incr"
    /\ IF OnClosed(h) THEN RaiseClosed(h) /\ UNCHANGED otp_table
       ELSE /\ otp_table' = [otp_table EXCEPT ![handlers[h].row].attempts = @ + 1]
            /\ Answer(h, HttpBadRequest, "Invalid code")
    /\ UNCHANGED <<svcvars, users, clock, db_conn, conns, closed, started, latest, accepted,
                   wrong_compared>>

\* signup's INSERT INTO users (my_app.py:1341-1354)
InsertUser(h) ==
    /\ handlers[h].pc = "insert_user"
    /\ IF OnClosed(h) THEN RaiseClosed(h) /\ UNCHANGED users
       ELSE IF handlers[h].email \in users
       THEN Answer(h, HttpBadRequest, "Email already registered") /\ UNCHANGED users
       ELSE /\ users' = users \cup {handlers[h].email}
            /\ Answer(h, HttpCreated, "")
    /\ UNCHANGED <<svcvars, otp_table, clock, db_conn, conns, closed, started, latest,
                   accepted, wrong_compared>>

\* login's SELECT and password check (my_app.py:824-842)
SelectUser(h, password_ok) ==
    /\ handlers[h].pc = "select_user"
    /\ IF OnClosed(h) THEN RaiseClosed(h)
       ELSE IF handlers[h].email \notin users \/ ~password_ok
       THEN Answer(h, HttpUnauthorized, "invalid credentials")
       ELSE Answer(h, HttpOk, "")
    /\ UNCHANGED <<svcvars, otp_table, users, clock, db_conn, conns, closed, started, latest,
                   accepted, wrong_compared>>

\* finally: if conn: conn.close(); the answer goes out
Finally(h) ==
    /\ handlers[h].pc = "finally"
    /\ closed' = closed \cup {handlers[h].conn}
    /\ handlers' = [handlers EXCEPT ![h].pc = "done"]
    /\ UNCHANGED <<svcvars, otp_table, users, clock, db_conn, conns, started, latest, accepted,
                   wrong_compared>>

\* the worker is free for the next request
Release(h) ==
    /\ handlers[h].pc = "done"
    /\ handlers' = [handlers EXCEPT ![h] = IdleHandler]
    /\ UNCHANGED <<svcvars, otp_table, users, clock, db_conn, conns, closed, started, latest,
                   accepted, wrong_compared>>

\* time passes
Tick ==
    /\ clock < MaxClockSteps * ClockStepSec
    /\ clock' = clock + ClockStepSec
    /\ UNCHANGED <<svcvars, otp_table, users, db_conn, conns, closed, handlers, started, latest,
                   accepted, wrong_compared>>

Request(op, email, otp) == [op |-> op, email |-> email, otp |-> otp]

\* the requests a client may send: generate_otp's result is drawn with the request
AuthRequests ==
    {Request(op, e, c) : op \in {"send_otp", "resend_otp"}, e \in Emails, c \in Codes}
    \cup {Request(op, e, c) : op \in {"verify_otp", "signup"}, e \in Emails, c \in Guesses}
    \cup {Request("login", e, "") : e \in Emails}

\* one client, one request at a time
AuthNext ==
    \/ \E r \in AuthRequests : StartRequest("h1", r, MaxRequests)
    \/ GetDbConn("h1")
    \/ CheckUser("h1")
    \/ StoreUpdate("h1")
    \/ StoreInsert("h1")
    \/ \E ok \in BOOLEAN : SendEmail("h1", ok)
    \/ VerifySelect("h1")
    \/ VerifyMark("h1")
    \/ VerifyIncr("h1")
    \/ InsertUser("h1")
    \/ \E ok \in BOOLEAN : SelectUser("h1", ok)
    \/ Finally("h1")
    \/ Release("h1")
    \/ Tick

AuthSpec == Init /\ [][AuthNext]_vars

\* requests handled by two worker threads at once
ConcNext ==
    \/ \E h \in Handlers, r \in AuthRequests : StartRequest(h, r, MaxRequests)
    \/ \E h \in Handlers : GetDbConn(h)
    \/ \E h \in Handlers : CheckUser(h)
    \/ \E h \in Handlers : StoreUpdate(h)
    \/ \E h \in Handlers : StoreInsert(h)
    \/ \E h \in Handlers, ok \in BOOLEAN : SendEmail(h, ok)
    \/ \E h \in Handlers : VerifySelect(h)
    \/ \E h \in Handlers : VerifyMark(h)
    \/ \E h \in Handlers : VerifyIncr(h)
    \/ \E h \in Handlers : InsertUser(h)
    \/ \E h \in Handlers, ok \in BOOLEAN : SelectUser(h, ok)
    \/ \E h \in Handlers : Finally(h)
    \/ \E h \in Handlers : Release(h)

ConcSpec == Init /\ [][ConcNext]_vars

\* code guessing: OTPs are resent and codes are tried, by two workers at once
GuessRequests ==
    {Request("resend_otp", e, "111111") : e \in Emails}
    \cup {Request("verify_otp", e, c) : e \in Emails, c \in {"111111", "000000"}}

GuessNext ==
    \/ \E h \in Handlers, r \in GuessRequests : StartRequest(h, r, MaxConcRequests)
    \/ \E h \in Handlers : GetDbConn(h)
    \/ \E h \in Handlers : StoreUpdate(h)
    \/ \E h \in Handlers : StoreInsert(h)
    \/ \E h \in Handlers, ok \in BOOLEAN : SendEmail(h, ok)
    \/ \E h \in Handlers : VerifySelect(h)
    \/ \E h \in Handlers : VerifyMark(h)
    \/ \E h \in Handlers : VerifyIncr(h)
    \/ \E h \in Handlers : Finally(h)
    \/ \E h \in Handlers : Release(h)

GuessSpec == Init /\ [][GuessNext]_vars

\* ------------------------------------------- the poll loop under the defaults
\* requests that leave progress_timeout to its default of 30 s, against a
\* provider whose progress calls return at once
BackoffPayloads ==
    {Payload(Str("cafe"), Num(14), Num(120), Num(2), Absent, i) :
        i \in {Absent} \cup {Num(n) : n \in 1..MaxIntervalSec}}

BackoffHttp ==
    {OkResponse(EmptyDict),
     OkResponse([EmptyDict EXCEPT !.venues = List(<<>>)]),
     OkResponse([EmptyDict EXCEPT !.venues = List(ListA)])}

BackoffNext ==
    \/ \E p \in BackoffPayloads : ClosestRequest(p, OkResponse(DeferredBody))
    \/ \E http \in BackoffHttp : PollAttempt(http, 0)
    \/ Sleep
    \/ PollTimeout
    \/ Finish

BackoffSpec == Init /\ [][BackoffNext]_vars

\* --------------------------------------------- the pure functions, called directly
\* one call of top_closest_with_foot_traffic or of average_day_mean with
\* arguments of the caller's choice; the service itself is idle
RankInit ==
    /\ hasKey = TRUE
    /\ pc = "idle"
    /\ endpoint = "none"
    /\ now = 0
    /\ payload = None
    /\ search_http = None
    /\ result = None
    /\ det = NoDet
    /\ poll = NoPoll
    /\ log = <<>>
    /\ sleeps = <<>>
    /\ sent = 0
    /\ ranked_from = None
    /\ response = None
    /\ cancelled = FALSE
    /\ AuthInit
    /\ \/ /\ rank_call \in {[type |-> "call", venues |-> vs, target_lat |-> RankTarget.lat,
                              target_lon |-> RankTarget.lon, top_n |-> n,
                              done |-> FALSE, out |-> None, venues_after |-> vs] :
                                vs \in RankLists, n \in TopNs}
          /\ mean_call = None
       \/ /\ rank_call = None
          /\ mean_call \in {[type |-> "call", venue |-> v, done |-> FALSE, out |-> None] :
                                v \in MeanVenues}

\* top_closest_with_foot_traffic runs: it returns the list, or float() raises
RankCall ==
    /\ rank_call # None
    /\ ~rank_call.done
    /\ rank_call' =
          [rank_call EXCEPT
              !.done = TRUE,
              !.venues_after = InputAfterRank(rank_call.venues, rank_call.target_lat,
                                              rank_call.target_lon),
              !.out = IF RankRaises(rank_call.venues)
                      THEN [type |-> "raise", exc |-> "ValueError"]
                      ELSE List(top_closest_with_foot_traffic(rank_call.venues,
                                                              rank_call.target_lat,
                                                              rank_call.target_lon,
                                                              rank_call.top_n))]
    /\ UNCHANGED <<authvars, hasKey, pc, endpoint, now, payload, search_http, result, det, poll, log,
                   sleeps, sent, ranked_from, response, cancelled, mean_call>>

\* average_day_mean runs
MeanCall ==
    /\ mean_call # None
    /\ ~mean_call.done
    /\ mean_call' = [mean_call EXCEPT !.done = TRUE, !.out = average_day_mean(mean_call.venue)]
    /\ UNCHANGED <<authvars, hasKey, pc, endpoint, now, payload, search_http, result, det, poll, log,
                   sleeps, sent, ranked_from, response, cancelled, rank_call>>

RankNext ==
    \/ RankCall
    \/ MeanCall

RankSpec == RankInit /\ [][RankNext]_vars

\* ------------------------------------------------------- sanity of the model
\* the backoff never had to round: 1.5 * interval is a whole number of ticks
\* whenever it is below the cap (holds for TicksPerSecond = 32)
IntervalExact ==
    pc \in {"loop", "sleep"} /\ 3 * poll.interval_seconds < 2 * BackoffCapSec * TicksPerSecond
        => (3 * poll.interval_seconds) % 2 = 0

\* ------------------------------------------------------------ shared notions
Seconds(n) == n * TicksPerSecond

\* the handler of /foot_traffic/closest went into wait_for_progress_and_get_venues
Polled == endpoint = "closest" /\ Truthy(poll.job_id)

IsFailure(http) == http.kind = "http" /\ ~http.ok

\* a provider answer that carries a non-empty venue list under some key
HasVenueList(http) ==
    /\ http.kind = "http" /\ http.ok /\ http.parseable
    /\ IsDict(http.json)
    /\ \E k \in {"venues", "results", "items", "found_venues"} :
          LET v == KeyValue(http.json, k) IN v.type = "list" /\ v.val # <<>>

\* a provider answer the loop gets a body from, without venues
AnsweredNoVenues(http) == http.kind = "http" /\ (~http.ok \/ http.parseable) /\ ~HasVenueList(http)

AllInstant == \A k \in 1..Len(log) : log[k].d = 0

\* the body the progress call of log entry e handed to the loop
RawBody(e) ==
    IF e.http.ok THEN e.http.json
    ELSE [EmptyDict EXCEPT !.error = Num(e.http.status),
                           !.details = IF e.http.parseable THEN e.http.json
                                       ELSE [type |-> "str", path |-> e.http.text,
                                             qjob |-> "", qcoll |-> ""]]

Answered == pc = "done" /\ endpoint = "closest"
StillRunning == Answered /\ response.status = HttpAccepted

\* -------------------------------------------------------------------- claims
\* C1: the job resolver never blocks indefinitely: whatever the provider
\* answers to the progress calls, for every timeout and every positive
\* initial interval, a request that is in the poll loop (at the while test or
\* in a backoff sleep) eventually has its answer.
C1_PollLoopTerminates == (pc \in {"loop", "sleep"}) ~> (pc = "done")

\* the loop was left after at least one backoff sleep
C1_Witness == Polled /\ pc = "done" /\ Len(sleeps) >= 1 /\ Len(log) >= 2

\* C2: counting progress calls as instantaneous and for a timeout that is not
\* negative, the resolver has returned by loop start + timeout_seconds and no
\* backoff sleep runs past the deadline.
C2_ReturnsByDeadline ==
    (Polled /\ poll.deadline >= 0 /\ AllInstant)
        => /\ \A k \in 1..Len(sleeps) : sleeps[k].t + sleeps[k].len <= poll.deadline
           /\ (pc = "done" => now <= poll.deadline)

\* C3: a provider Failure answered to a progress call ends the polling at
\* once: it is the last call, no sleep follows it, and the caller gets an
\* error answer, never the 202 "still running" one.
C3_FailureStopsPolling ==
    \A k \in 1..Len(log) :
        (Polled /\ IsFailure(log[k].http))
            => /\ k = Len(log)
               /\ Len(sleeps) < k
               /\ pc = "done"
               /\ response.status # HttpAccepted
               /\ response.status >= HttpBadRequest

\* C4: a search response whose venue list is not empty is resolved inline:
\* no progress call is made, the search is the only request sent, and the
\* ranking is computed from exactly that list.
C4_InlineNoPoll ==
    (endpoint = "closest" /\ IsDict(result) /\ result.venues.type = "list"
        /\ result.venues.val # <<>>)
        => /\ pc = "done"
           /\ ~Polled
           /\ log = <<>> /\ sleeps = <<>>
           /\ sent = 1
           /\ ranked_from \in {None, result.venues}
           /\ response.status = HttpOk =>
                /\ ranked_from = result.venues
                /\ \A i \in 1..Len(response.body.top_venues.val) :
                      \E j \in 1..Len(result.venues.val) :
                          response.body.top_venues.val[i].name = result.venues.val[j].name

C4_Witness ==
    /\ Answered /\ response.status = HttpOk
    /\ IsDict(result) /\ result.venues.type = "list" /\ Len(result.venues.val) = 3
    /\ Len(response.body.top_venues.val) >= 1
    /\ log = <<>>

\* C5: when call k is the first progress call that answers a non-empty venue
\* list, the resolver returns that list and that response, has made exactly
\* k calls and k - 1 sleeps, and does nothing after it.
C5_FirstVenuesEndPolling ==
    \A k \in 1..Len(log) :
        (Polled /\ HasVenueList(log[k].http))
            => /\ k = Len(log)
               /\ \A j \in 1..(k - 1) : AnsweredNoVenues(log[j].http)
               /\ log[k].t < poll.deadline
               /\ pc = "done"
               /\ Len(sleeps) = k - 1
               /\ poll.last_resp = log[k].http.json
               /\ poll.venues_found.type = "list"
               /\ poll.venues_found.val # <<>>
               /\ \E key \in {"venues", "results", "items", "found_venues"} :
                      poll.venues_found = KeyValue(log[k].http.json, key)

C5_Witness ==
    /\ Polled /\ pc = "done" /\ Len(log) = 3
    /\ AnsweredNoVenues(log[1].http) /\ AnsweredNoVenues(log[2].http)
    /\ HasVenueList(log[3].http)
    /\ poll.venues_found.type = "list"

\* C6: when no progress call returned venues, the resolver ends in the
\* timeout (no venues, the last raw response), and the timeout is declared
\* at or after the deadline, every attempt having started before it.
C6_TimeoutOnlyAfterDeadline ==
    /\ (Polled /\ pc = "done" /\ \A k \in 1..Len(log) : AnsweredNoVenues(log[k].http))
          => /\ response.status = HttpAccepted
             /\ poll.venues_found = None
             /\ response.body.progress_response =
                    IF log = <<>> THEN None ELSE RawBody(log[Len(log)])
    /\ StillRunning
          => /\ now >= poll.deadline
             /\ \A k \in 1..Len(log) : log[k].t < poll.deadline /\ AnsweredNoVenues(log[k].http)

C6_Witness == StillRunning /\ Len(log) >= 2 /\ now > poll.deadline /\ poll.deadline > 0

\* the case of C7: deadline 5 s, interval 2 s, instantaneous calls, no venues
C7_Case ==
    /\ StillRunning
    /\ payload.progress_timeout = Num(5)
    /\ payload.progress_interval = Num(2)
    /\ AllInstant

AttemptTimes == [k \in 1..Len(log) |-> log[k].t]

\* C7 as stated: exactly 3 attempts, at t = 0, 2 and 4, timeout by t = 6.
C7_ThreeAttempts ==
    C7_Case => AttemptTimes = <<0, Seconds(2), Seconds(4)>> /\ now <= Seconds(6)

\* C7, amended: with deadline 5 s and interval 2 s the resolver makes exactly
\* 2 attempts, at t = 0 and t = 2, sleeps 2 s and then 3 s, and declares the
\* timeout at t = 5.
C7_TwoAttempts ==
    C7_Case => /\ AttemptTimes = <<0, Seconds(2)>>
               /\ sleeps = <<[t |-> 0, len |-> Seconds(2)], [t |-> Seconds(2), len |-> Seconds(3)]>>
               /\ now = Seconds(5)

C7_Witness == C7_Case /\ Len(log) = 2

\* C8: the 202 "still running" answer carries the raw search response, the
\* last raw progress response and a progress_link that is never null: the
\* provider's link, or one synthesized from job_id and collection_id.
C8_StillRunningResumable ==
    StillRunning
        => /\ search_http.kind = "http"
           /\ response.body.search_response = search_http.json
           /\ response.body.progress_response = poll.last_resp
           /\ log # <<>> => response.body.progress_response = RawBody(log[Len(log)])
           /\ response.body.progress_link.type = "str"
           /\ Truthy(response.body.progress_link)
           /\ \/ response.body.progress_link \in {search_http.json.links, search_http.json.other}
              \/ \E j \in {search_http.json.job_id, search_http.json.job} :
                    /\ j.type = "str" /\ search_http.json.collection_id.type = "str"
                    /\ response.body.progress_link =
                          [type |-> "str", path |-> "venues/progress", qjob |-> j.path,
                           qcoll |-> search_http.json.collection_id.path]

\* the 202 answer whose link had to be synthesized
C8_Witness ==
    /\ StillRunning
    /\ det.progress_link = None
    /\ response.body.progress_link = Url("venues/progress", "j2", "c1")

\* C9: a non-success status of the search call ends the request at once in
\* an answer with the provider's status and its decoded body (the JSON if it
\* parses, else the raw text); no progress call, no ranking, no second search.
C9_SearchFailureSurfaced ==
    (endpoint = "closest" /\ search_http # None /\ IsFailure(search_http))
        => /\ pc = "done"
           /\ response.status = search_http.status
           /\ response.body.details =
                 IF search_http.parseable THEN search_http.json
                 ELSE [type |-> "str", path |-> search_http.text, qjob |-> "", qcoll |-> ""]
           /\ response.body.top_venues = Absent
           /\ ranked_from = None
           /\ ~Polled /\ log = <<>> /\ sleeps = <<>>
           /\ sent = 1

C9_Witness ==
    /\ Answered /\ search_http # None /\ IsFailure(search_http)
    /\ search_http.parseable
    /\ response.status = 401

\* C10: with no API credential configured no HTTP request goes out to the
\* provider, for the search as for the progress operation.
C10_NoRequestWithoutKey == ~hasKey => sent = 0

\* ------------------------------------------------- notions of the ranking claims
\* a direct call of top_closest_with_foot_traffic has returned a list
RankReturned == rank_call # None /\ rank_call.done /\ rank_call.out.type = "list"

\* positions of the argument list that hold a ranking candidate: the venue is
\* flagged as forecast and has both coordinates
CandidatePositions(venues) ==
    {i \in 1..Len(venues) :
        /\ Truthy(Get(venues[i].forecast))
        /\ Get(venues[i].venue_lat) # None
        /\ Get(venues[i].venue_lon) # None}

\* a is not farther than b, and not less busy when they are equally far
RanksBefore(a, b) ==
    \/ a._distance_m < b._distance_m
    \/ /\ a._distance_m = b._distance_m
       /\ a._avg_day_mean.n * b._avg_day_mean.d >= b._avg_day_mean.n * a._avg_day_mean.d

\* C11: for every list and every top_n >= 1, the ranking returns exactly the
\* first min(top_n, number of candidates) entries of the sorted candidate
\* list, never more than top_n
C11_FirstTopN ==
    RankReturned /\ rank_call.top_n >= 1 =>
        LET out == rank_call.out.val
            sorted == SortCandidates(Candidates(rank_call.venues, rank_call.target_lat,
                                                rank_call.target_lon))
            count == Cardinality(CandidatePositions(rank_call.venues))
        IN /\ Len(sorted) = count
           /\ Len(out) = Min(rank_call.top_n, count)
           /\ Len(out) <= rank_call.top_n
           /\ \A i \in 1..Len(out) : out[i] = sorted[i]

\* C11 happens: a call that has more candidates than top_n, and one that has fewer
C11_Witness ==
    /\ RankReturned
    /\ rank_call.top_n = 2
    /\ Cardinality(CandidatePositions(rank_call.venues)) = 3
    /\ Len(rank_call.out.val) = 2

\* C12 as stated: every returned venue has latitude and longitude present and a
\* non-empty forecast series, whatever its forecast flag
C12_ReturnedHaveSeries ==
    RankReturned =>
        \A i \in 1..Len(rank_call.out.val) :
            LET v == rank_call.out.val[i] IN
            /\ Get(v.venue_lat) # None
            /\ Get(v.venue_lon) # None
            /\ v.venue_foot_traffic_forecast.type = "list"
            /\ v.venue_foot_traffic_forecast.val # <<>>

\* C13: the returned list is in ascending order of distance from the target,
\* equally distant venues in descending order of mean intensity
C13_OrderedByDistanceThenMean ==
    RankReturned =>
        LET out == rank_call.out.val IN
        /\ \A i \in 1..Len(out) :
              /\ out[i]._distance_m =
                    haversine_meters(rank_call.target_lat, rank_call.target_lon,
                                     out[i].venue_lat.val, out[i].venue_lon.val)
              /\ out[i]._avg_day_mean =
                    average_day_mean(Venue(out[i].name, out[i].forecast, out[i].venue_lat,
                                           out[i].venue_lon,
                                           out[i].venue_foot_traffic_forecast))
        /\ \A i \in 1..(Len(out) - 1) : RanksBefore(out[i], out[i + 1])

\* C13 happens: two equally distant venues were given with the less busy one
\* first and come back with the busier one first
C13_Witness ==
    /\ RankReturned
    /\ rank_call.venues = <<VenueNorth, VenueSouth>>
    /\ rank_call.top_n = 2
    /\ Len(rank_call.out.val) = 2
    /\ rank_call.out.val[1].name = "south"
    /\ rank_call.out.val[2].name = "north"

\* ------------------------------------------- notions of the orchestrator claims
\* the handler called top_closest_with_foot_traffic with a venue list
RankWasCalled == Answered /\ ranked_from.type = "list"

\* a coordinate that is there and is a number
NumericCoordinate(c) == c.type = "num"

\* the search was sent and answered with a JSON body
SearchAnswered ==
    /\ Answered
    /\ search_http # None
    /\ search_http.kind = "http" /\ search_http.ok /\ search_http.parseable

\* the strings of a search body that are a progress link: the value under
\* _links.venue_search_progress, or any value that has the progress path
ProgressLinks(b) ==
    {v \in {b.links, b.job_id, b.job, b.collection_id, b.other} :
        /\ v.type = "str"
        /\ \/ v = b.links /\ Truthy(v)
           \/ v.path = "venues/progress"}

\* a job id and a collection id can both be had from the body, each one given
\* directly or as a query parameter of a progress link
JobPairDeterminable(b) ==
    /\ IsDict(b)
    /\ \/ \E v \in {b.job_id, b.job} : v.type = "str" /\ Truthy(v)
       \/ \E l \in ProgressLinks(b) : l.qjob # ""
    /\ \/ b.collection_id.type = "str" /\ Truthy(b.collection_id)
       \/ \E l \in ProgressLinks(b) : l.qcoll # ""

\* C14 as stated: a venue whose latitude or longitude is missing or not a number
\* is dropped silently: the ranking completes and the caller gets no error
C14_BadCoordinateDropped ==
    /\ RankWasCalled
    /\ \E i \in 1..Len(ranked_from.val) :
          \/ ~NumericCoordinate(ranked_from.val[i].venue_lat)
          \/ ~NumericCoordinate(ranked_from.val[i].venue_lon)
    => /\ response.status = HttpOk
       /\ response.body.error = Absent
       /\ response.body.top_venues.type = "list"
       /\ \A k \in 1..Len(response.body.top_venues.val) :
             /\ NumericCoordinate(response.body.top_venues.val[k].venue_lat)
             /\ NumericCoordinate(response.body.top_venues.val[k].venue_lon)

\* C15 as stated: when the ranking's filter removes every venue the answer is
\* the same NoResults as for an empty venue list, never a success with an
\* empty list
C15_AllFilteredIsNoResults ==
    RankWasCalled /\ CandidatePositions(ranked_from.val) = {}
        => /\ response.status = HttpNotFound
           /\ response.body.top_venues = Absent

\* C16: when the search response has no venues and a job id and a collection
\* id cannot both be determined (given directly or parsed from a progress
\* link), no progress call is made and the answer is an error that is not the
\* still-running answer of a poll timeout
C16_NoJobPairIsTerminalError ==
    SearchAnswered /\ ~HasVenueList(search_http) /\ ~JobPairDeterminable(search_http.json)
        => /\ log = <<>>
           /\ sleeps = <<>>
           /\ sent = 1
           /\ ~StillRunning
           /\ response.status \in {HttpNotFound, HttpServerError}
           /\ Truthy(response.body.error)
           /\ response.body.progress_link = Absent
           /\ response.body.top_venues = Absent

\* C16 happens: the body has a job id and nothing that gives a collection id
C16_Witness ==
    /\ SearchAnswered
    /\ ~HasVenueList(search_http)
    /\ IsDict(search_http.json)
    /\ Truthy(Get(search_http.json.job_id))
    /\ ~JobPairDeterminable(search_http.json)
    /\ log = <<>>
    /\ response.status = HttpServerError

\* C17 as stated: a non-empty array under any of the keys venues, results,
\* items, found_venues of the search response is taken as the inline venue
\* list: the request is answered from it, without a progress call
C17_AnyKeyResolvesInline ==
    /\ SearchAnswered
    /\ HasVenueList(search_http)
    /\ FloatOk(payload.lat) /\ FloatOk(payload.lng)
    => /\ log = <<>>
       /\ RankWasCalled
       /\ \E k \in {"venues", "results", "items", "found_venues"} :
             /\ Truthy(KeyValue(search_http.json, k))
             /\ ranked_from = KeyValue(search_http.json, k)

\* C18 as stated: a request with an empty query text, a radius <= 0 or a
\* top_n < 1 is rejected with an error and no search is sent to the provider
C18_InvalidQueryRejected ==
    /\ Answered
    /\ \/ ~Truthy(Get(payload.business_type))
       \/ payload.radius.val <= 0
       \/ payload.top_n.val < 1
    => /\ sent = 0
       /\ Truthy(response.body.error)

\* C19 as stated: once the caller has cancelled a request that is polling, no
\* further progress call is made
C19_NoCallAfterCancel ==
    [][cancelled /\ pc \in {"loop", "sleep"} => Len(log') <= Len(log)]_vars

\* the sum of the numeric entries of xs[1..k]
RECURSIVE SumOfNumeric(_, _)
SumOfNumeric(xs, k) ==
    IF k = 0 THEN 0
    ELSE (IF xs[k].type = "num" THEN xs[k].val ELSE 0) + SumOfNumeric(xs, k - 1)

\* C20: average_day_mean returns 0 when the series is empty or has no numeric
\* day mean, else the arithmetic mean of exactly the numeric values: an absent
\* or null day mean is left out of both the sum and the count
C20_MeanOfNumericOnly ==
    mean_call # None /\ mean_call.done =>
        LET sv == mean_call.venue.venue_foot_traffic_forecast
            xs == IF sv.type = "list" THEN sv.val ELSE <<>>
            numeric == {i \in 1..Len(xs) : xs[i].type = "num"}
            out == mean_call.out
        IN /\ out.d > 0
           /\ IF numeric = {} THEN out.n = 0
              ELSE out.n * Cardinality(numeric) = out.d * SumOfNumeric(xs, Len(xs))

\* C20 happens: a series with a null day mean between two numeric ones
C20_Witness ==
    /\ mean_call # None
    /\ mean_call.done
    /\ mean_call.venue.venue_foot_traffic_forecast = List(<<Num(5), None, Num(10)>>)
    /\ mean_call.out.n = 15
    /\ mean_call.out.d = 2

\* ------------------------------------------------ notions of the poll-loop claims
\* C21 as stated: after a progress call without venues the deadline is looked
\* at before sleeping, so a backoff sleep starts only while the deadline has
\* not elapsed
C21_SleepOnlyBeforeDeadline ==
    Polled => \A k \in 1..Len(sleeps) : sleeps[k].t < poll.deadline

\* C23 as stated: for every initial interval the caller configures, every
\* backoff sleep of the poll loop, the first one included, lasts at most 8 s
C23_EverySleepCapped ==
    Polled => \A k \in 1..Len(sleeps) : sleeps[k].len <= Seconds(BackoffCapSec)

\* the schedule of the default interval, in quarters of a second: 2, 3, 4.5,
\* 6.75, 8, 8, ...
DefaultScheduleQuarters(k) ==
    IF k >= 5 THEN 4 * BackoffCapSec
    ELSE <<4 * DefaultIntervalSec, 6 * DefaultIntervalSec, 9 * DefaultIntervalSec, 27>>[k]

\* C22: after each unsuccessful poll the loop sleeps the current interval and
\* then sets interval := min(interval * 1.5, 8); from the default 2 s the
\* sleeps are 2, 3, 4.5, 6.75, 8, 8, ... seconds (durations are whole ticks:
\* each product with 1.5 may be short of the exact value by less than a tick)
C22_BackoffSchedule ==
    Polled =>
        /\ Len(sleeps) >= 1 => sleeps[1].len = Seconds(IntervalSeconds(payload))
        /\ \A k \in 1..(Len(sleeps) - 1) :
              IF 3 * sleeps[k].len >= 2 * Seconds(BackoffCapSec)
              THEN sleeps[k + 1].len = Seconds(BackoffCapSec)
              ELSE 2 * sleeps[k + 1].len \in {3 * sleeps[k].len - 1, 3 * sleeps[k].len}
        /\ pc = "loop" /\ Len(sleeps) >= 1 =>
              poll.interval_seconds <= Seconds(BackoffCapSec)
        /\ payload.progress_interval = Absent =>
              \A k \in 1..Len(sleeps) :
                  /\ 4 * sleeps[k].len <= Seconds(DefaultScheduleQuarters(k))
                  /\ 4 * sleeps[k].len > Seconds(DefaultScheduleQuarters(k)) - 4 * k

\* C22 happens: under both defaults the loop slept six times before it timed out
C22_Witness ==
    /\ StillRunning
    /\ payload.progress_interval = Absent
    /\ payload.progress_timeout = Absent
    /\ Len(sleeps) = 6
    /\ sleeps[5].len = Seconds(BackoffCapSec)
    /\ sleeps[6].len = Seconds(BackoffCapSec)

\* the priority of the four venue keys, 1 first
KeyPriority == [venues |-> 1, results |-> 2, items |-> 3, found_venues |-> 4]

\* the keys of a body that hold a non-empty list
KeysWithVenues(b) ==
    {k \in DOMAIN KeyPriority : KeyValue(b, k).type = "list" /\ KeyValue(b, k).val # <<>>}

\* the body of the last progress call of the request
LastProgressBody == log[Len(log)].http.json

\* C24: after a progress call the venue list is looked up under venues,
\* results, items, found_venues in that order and the first key that holds a
\* non-empty list wins, whatever later keys hold and whatever empty lists
\* earlier keys hold
C24_EarliestNonEmptyKeyWins ==
    Polled /\ Answered /\ Len(log) >= 1 /\ HasVenueList(log[Len(log)].http) =>
        \E k \in KeysWithVenues(LastProgressBody) :
            /\ \A j \in KeysWithVenues(LastProgressBody) : KeyPriority[k] <= KeyPriority[j]
            /\ poll.venues_found = KeyValue(LastProgressBody, k)
            /\ FloatOk(payload.lat) /\ FloatOk(payload.lng)
                  => ranked_from = KeyValue(LastProgressBody, k)

\* C24 happens: the progress body has an empty list under "venues" and venues
\* under "results", and those are the ones that get ranked
C24_Witness ==
    /\ Polled /\ Answered /\ Len(log) >= 1
    /\ HasVenueList(log[Len(log)].http)
    /\ LastProgressBody.venues = List(<<>>)
    /\ KeysWithVenues(LastProgressBody) = {"results"}
    /\ ranked_from = LastProgressBody.results

\* C25: the ranking leaves its input unchanged: after the call the caller's
\* list has the same venues in the same order and none of them has the derived
\* fields _distance_m / _avg_day_mean, which only the returned copies carry
C25_InputUnchanged ==
    rank_call # None /\ rank_call.done =>
        /\ Len(rank_call.venues_after) = Len(rank_call.venues)
        /\ \A i \in 1..Len(rank_call.venues) :
              /\ rank_call.venues_after[i] = rank_call.venues[i]
              /\ "_distance_m" \notin DOMAIN rank_call.venues_after[i]
              /\ "_avg_day_mean" \notin DOMAIN rank_call.venues_after[i]

\* C25 happens: a call returned two enriched venues out of a list of three
C25_Witness ==
    /\ RankReturned
    /\ Len(rank_call.venues) = 3
    /\ Len(rank_call.out.val) = 2
    /\ \A k \in 1..2 : {"_distance_m", "_avg_day_mean"} \subseteq DOMAIN rank_call.out.val[k]
    /\ rank_call.venues_after = rank_call.venues

\* C29 as stated: whenever the answer is the still-running 202, at least one
\* progress call was made for the request and progress_response is the body of
\* the last progress call, never null, for every progress_timeout the handler
\* accepts, zero and negative ones included
C29_StillRunningHasProgressBody ==
    StillRunning =>
        /\ Len(log) >= 1
        /\ response.body.progress_response # None
        /\ response.body.progress_response = RawBody(log[Len(log)])

\* ------------------------------------------------- the account endpoints' claims
\* C26 as stated: for every sequence of send_otp / resend_otp for one email,
\* every store_otp succeeds under UNIQUE (email, is_verified), and verify_otp
\* accepts the most recently issued code and no earlier one
C26_EveryStoreSucceeds ==
    \A h \in Handlers :
        /\ handlers[h].op \in {"send_otp", "resend_otp"}
              => handlers[h].error # "unique_active_otp"
        /\ handlers[h].op = "verify_otp" /\ handlers[h].pc = "done"
              /\ handlers[h].status = HttpOk
              => handlers[h].otp = latest[handlers[h].email]

\* C27 as stated: once /verify_otp has accepted a code for an email, a /signup
\* with the same email and code, with no new OTP stored in between and the
\* code not expired, succeeds and inserts the user
C27_SignupAfterVerifySucceeds ==
    \A h \in Handlers :
        /\ handlers[h].op = "signup"
        /\ handlers[h].pc = "done"
        /\ handlers[h].accepted_before # 0
        /\ otp_table[handlers[h].accepted_before].otp_code = handlers[h].otp
        /\ clock <= otp_table[handlers[h].accepted_before].expires_at
        => /\ handlers[h].status = HttpCreated
           /\ handlers[h].email \in users

\* C28 as stated: in every interleaving of concurrent verify_otp calls at most
\* MAX_OTP_ATTEMPTS wrong codes are ever compared with one stored OTP
C28_AtMostThreeWrongGuesses ==
    \A i \in 1..Len(wrong_compared) : wrong_compared[i] <= MAX_OTP_ATTEMPTS

\* C30 as stated: in every interleaving of the handlers that get their
\* connection from get_db_conn, none executes a statement on the module's
\* connection after another handler's finally block has closed it
C30_NoStatementOnClosedConnection ==
    \A h \in Handlers : handlers[h].error # "connection already closed"


====
